---- MODULE Spec2Model ----
(***************************************************************************)
(* K-1 extraction engine: K1Extractor.extract_from_pdf (src/extractor.py), *)
(* the record type K1Data / ExtractionResult (src/models.py) and the       *)
(* pattern catalog's extract_all_fields (src/patterns.py).                 *)
(*                                                                         *)
(* Money is held in cents (integers); a confidence score is held in units  *)
(* of 1/3000, so that 1/6, 1/3, 0.4, 0.3, 0.2, 0.1 and 0.05 are all exact. *)
(* An optional value is a sequence of length at most one: None is << >>    *)
(* and a present value x is <<x>>.  A dict is a function whose DOMAIN is   *)
(* its key set.  A string that the code inspects character by character    *)
(* (ein, tax_year) is a sequence of one-character strings.                 *)
(***************************************************************************)
EXTENDS Integers, Sequences, FiniteSets, TLC

VARIABLES
    pc,                 \* position inside extract_from_pdf ("idle" between calls)
    file_exists,        \* os.path.exists(pdf_path) of the current call
    extracted_fields,   \* extractor.py:107  the accumulated field map
    extraction_method,  \* extractor.py:108
    pdf_text,           \* extractor.py:104/130
    simple_fields,      \* extractor.py:113
    pattern_fields,     \* extractor.py:133
    table_fields,       \* extractor.py:156
    ocr_text,           \* extractor.py:173
    ocr_fields,         \* extractor.py:175
    invoked,            \* strategies whose adapter was called in this call
    threw,              \* adapters that raised inside their own try block
    exception,          \* what reached the try block of extract_from_pdf
    k1_data,            \* extractor.py:198
    result,             \* the ExtractionResult returned (valid when pc = "done")
    stats,              \* extractor.py:62  self.stats
    raw_value,          \* patterns.py:268  the raw token given to a normalizer
    cleaned,            \* what the normalizer returned for it
    line,               \* patterns.py:317  a one-line text given to the rules
    matched,            \* the box fields whose rules match that text
    clock,              \* the reading of datetime.now()
    pdf,                \* what the adapters read from one document
    runs                \* the records of the calls made on that document

vars == <<pc, file_exists, extracted_fields, extraction_method, pdf_text,
          simple_fields, pattern_fields, table_fields, ocr_text, ocr_fields,
          invoked, threw, exception, k1_data, result, stats,
          raw_value, cleaned, line, matched, clock, pdf, runs>>

\* the variables of the catalog's pure functions, untouched by the extractor
catalog_vars == <<raw_value, cleaned, line, matched>>

\* the variables of repeated calls on one document
rerun_vars == <<clock, pdf, runs>>

(***************************************************************************)
(* Bounds of the model                                                     *)
(***************************************************************************)
\* largest number of keys one adapter output carries
MaxKeys == 15
\* largest number of keys a reader had found when it raised
MaxPartial == 1
\* largest number of adapters that raise during one call
MaxRaises == 1

(***************************************************************************)
(* Program constants                                                       *)
(***************************************************************************)
\* extractor.py:154  len(extracted_fields) < 15
TABLE_GATE == 15
\* extractor.py:171  len(extracted_fields) < 5
OCR_GATE == 5
\* extractor.py:166  added_count > 5
TABLE_TAG_MIN == 5
\* models.py:325  abs(expected - actual) <= 1.0, in cents
TOLERANCE == 100

\* the fixed-point unit of a confidence score: 1.0
One == 3 * 1000

None == << >>
Some(x) == <<x>>
EmptyDict == [f \in {} |-> 0]
Min(a, b) == IF a < b THEN a ELSE b
Abs(x) == IF x < 0 THEN -x ELSE x

(***************************************************************************)
(* Field names                                                             *)
(***************************************************************************)
\* extractor.py:717-741  the values of box_mapping, in its order
box_mapping ==
    << "box_1_ordinary_income", "box_2_rental_real_estate", "box_3_other_rental",
       "box_4_guaranteed_payments", "box_5_interest_income",
       "box_6a_ordinary_dividends", "box_6b_qualified_dividends",
       "box_7_royalties", "box_8_net_short_term_gain",
       "box_9a_net_long_term_gain", "box_9b_collectibles_gain",
       "box_9c_unrecaptured_1250", "box_10_net_1231_gain",
       "box_11_other_income", "box_12_section_179", "box_13_other_deductions",
       "box_14_self_employment", "box_15_credits",
       "box_16_foreign_transactions", "box_17_amt_items", "box_18_tax_exempt",
       "box_19_distributions", "box_20_other" >>

\* extractor.py:1118-1246  every key _extract_k1_simple can store: the box
\* fields through _map_box_to_field, box 1 and the three capital lines.
\* The order is the order in which the model fills an output (see Output).
SimpleKeys ==
    << "box_1_ordinary_income", "capital_beginning", "capital_ending",
       "capital_distributions" >> \o Tail(box_mapping)

\* patterns.py:325-368  every key extract_all_fields can store
PatternKeys ==
    << "ein", "tax_year", "entity_name", "box_1_ordinary_income",
       "capital_beginning", "capital_contributions", "capital_distributions",
       "capital_ending", "profit_sharing_percent",
       "box_2_rental_real_estate", "box_3_other_rental",
       "box_4_guaranteed_payments", "box_5_interest_income",
       "box_6a_ordinary_dividends", "box_6b_qualified_dividends",
       "box_7_royalties", "box_8_net_short_term_gain",
       "box_9a_net_long_term_gain", "box_10_net_1231_gain",
       "box_11_other_income", "box_12_section_179", "box_13_other_deductions",
       "box_14_self_employment", "box_15_credits",
       "box_16_foreign_transactions", "box_17_amt_items", "box_18_tax_exempt",
       "box_19_distributions", "box_20_other", "loss_sharing_percent",
       "capital_percent" >>

\* extractor.py:635-711  every key _extract_pdf_with_tables can store
TableKeys ==
    box_mapping \o << "capital_beginning", "capital_ending", "capital_distributions" >>

\* extractor.py:145  the allow-list of the stage-2 merge
entity_fields == {"ein", "entity_name", "tax_year", "partner_name"}

\* extractor.py:452-477  the keys of field_mapping
field_mapping ==
    { "ein", "tax_year", "entity_name", "partner_name",
      "box_1_ordinary_income", "box_2_rental_real_estate", "box_3_other_rental",
      "box_4_guaranteed_payments", "box_5_interest_income",
      "box_6a_ordinary_dividends", "box_6b_qualified_dividends",
      "box_7_royalties", "box_8_net_short_term_gain",
      "box_9a_net_long_term_gain", "box_10_net_1231_gain",
      "box_11_other_income", "box_12_section_179",
      "capital_beginning", "capital_ending", "capital_contributions",
      "capital_distributions", "profit_sharing_percent",
      "loss_sharing_percent", "capital_percent" }

(***************************************************************************)
(* Raw values read by the adapters                                         *)
(***************************************************************************)
\* the EIN shapes the catalog captures (patterns.py:66-73): with and
\* without the dash
ein_values ==
    << <<"1","2","-","3","4","5","6","7","8","9">>,
       <<"1","2","3","4","5","6","7","8","9">>,
       <<"9","8","-","7","6","5","4","3","2","1">> >>

\* patterns.py:87-92  a tax year is captured as 20dd
tax_year_values ==
    << <<"2","0","2","3">>, <<"2","0","3","1">>, <<"2","0","2","4">> >>

\* patterns.py:103-108
entity_name_values ==
    << <<"A","B","C"," ","L","P">>,
       <<"W","a","y","n","e"," ","C","o","r","p">>,
       <<"H","e","l","p"," ","T","r","u","s","t">> >>

Pick(seq, v) == seq[((v - 1) % Len(seq)) + 1]

\* the amount, in cents, the v-th variant of a document shows for a field
Amount(f, v) ==
    LET base == CASE f = "box_1_ordinary_income" -> 10000
                  [] f = "capital_beginning"     -> 100000
                  [] f = "capital_contributions" -> 5000
                  [] f = "capital_distributions" -> 15000
                  [] f = "capital_ending"        -> 95000
                  [] f \in {"profit_sharing_percent", "loss_sharing_percent",
                            "capital_percent"}   -> 5000
                  [] OTHER                       -> 0
    IN  base + 100 * (v - 1)

Value(f, v) ==
    CASE f = "ein"         -> Pick(ein_values, v)
      [] f = "tax_year"    -> Pick(tax_year_values, v)
      [] f = "entity_name" -> Pick(entity_name_values, v)
      [] OTHER             -> Amount(f, v)

\* the field map an adapter returns when it found the first n keys of its
\* key list in a document of variant v
Output(keys, n, v) ==
    [f \in {keys[i] : i \in 1..Min(n, Len(keys))} |-> Value(f, v)]

Sizes == 0..MaxKeys
\* the document variants: two readings of a field that differ in value
Variants == {1, 2}

(***************************************************************************)
(* Text                                                                    *)
(***************************************************************************)
\* A text is the empty string, or a document text characterised by the
\* labelled values the catalog's rules find in it (the first n keys of
\* PatternKeys, in variant v) and by the set of lower-cased title and keyword
\* phrases that occur in it.
EmptyText == << >>

\* the phrases _detect_form_type looks for (extractor.py:411-424) that the
\* v-th document variant carries
Marks(v) ==
    CASE v % 4 = 1 -> {"form 1065", "partnership"}
      [] v % 4 = 2 -> {}
      [] v % 4 = 3 -> {"form 1120s", "form 1041", "trust"}
      [] OTHER     -> {"estate"}

DocText(n, v) == << [n |-> n, v |-> v, marks |-> Marks(v)] >>
Texts == {DocText(n, v) : n \in Sizes, v \in Variants}

\* a catalog with a rule for the partner's name
extract_all_fields_with_partner(text) ==
    IF text = EmptyText THEN EmptyDict
    ELSE [f \in DOMAIN Output(PatternKeys, text[1].n, text[1].v) \cup {"partner_name"} |->
             IF f = "partner_name" THEN <<"J","o","h","n"," ","D","o","e">>
             ELSE Value(f, text[1].v)]

\* patterns.py:316-370
extract_all_fields(text) ==
    IF text = EmptyText THEN EmptyDict
    ELSE Output(PatternKeys, text[1].n, text[1].v)

(***************************************************************************)
(* The record type (src/models.py)                                         *)
(***************************************************************************)
\* models.py:33-234  K1Data(form_type=..., extraction_method=..., raw_text=...)
\* with every other field at its default
K1Data(form_type, method, raw_text) ==
    [ form_type         |-> form_type,
      extraction_method |-> method,
      confidence_score  |-> 0,
      raw_text          |-> raw_text,
      warnings          |-> << >>,
      fields            |-> [f \in field_mapping |-> None] ]

\* models.py:265-276  the list income_fields
income_fields ==
    << "box_1_ordinary_income", "box_2_rental_real_estate", "box_3_other_rental",
       "box_4_guaranteed_payments", "box_5_interest_income",
       "box_6a_ordinary_dividends", "box_7_royalties",
       "box_8_net_short_term_gain", "box_9a_net_long_term_gain",
       "box_11_other_income" >>

RECURSIVE SumPresent(_, _)
SumPresent(k1, names) ==
    IF names = << >> THEN 0
    ELSE (IF k1.fields[Head(names)] # None THEN k1.fields[Head(names)][1] ELSE 0)
         + SumPresent(k1, Tail(names))

\* models.py:255-278
get_total_income(k1) == SumPresent(k1, income_fields)

\* models.py:291-298  the list important_fields
important_fields ==
    << "ein", "tax_year", "entity_name", "partner_name",
       "box_1_ordinary_income", "capital_ending" >>

CountPresent(k1, names) ==
    Cardinality({i \in 1..Len(names) : k1.fields[names[i]] # None})

\* models.py:280-301
get_completeness_score(k1) ==
    (CountPresent(k1, important_fields) * One) \div Len(important_fields)

\* x or 0
OrZero(opt) == IF opt # None /\ opt[1] # 0 THEN opt[1] ELSE 0

\* a reconciliation that fails when a capital line is missing
validate_capital_account_strict(k1) ==
    /\ k1.fields["capital_beginning"] # None
    /\ k1.fields["capital_ending"] # None
    /\ k1.fields["capital_distributions"] # None
    /\ Abs(k1.fields["capital_beginning"][1]
             + OrZero(k1.fields["capital_contributions"])
             + get_total_income(k1)
             - OrZero(k1.fields["capital_distributions"])
             - k1.fields["capital_ending"][1]) <= TOLERANCE

\* a reconciliation that adds the distributions
validate_capital_account_added(k1) ==
    IF /\ k1.fields["capital_beginning"] # None
       /\ k1.fields["capital_ending"] # None
       /\ k1.fields["capital_distributions"] # None
    THEN Abs(k1.fields["capital_beginning"][1]
               + OrZero(k1.fields["capital_contributions"])
               + get_total_income(k1)
               + OrZero(k1.fields["capital_distributions"])
               - k1.fields["capital_ending"][1]) <= TOLERANCE
    ELSE TRUE

\* models.py:303-326
validate_capital_account(k1) ==
    IF /\ k1.fields["capital_beginning"] # None
       /\ k1.fields["capital_ending"] # None
       /\ k1.fields["capital_distributions"] # None
    THEN LET contributions == OrZero(k1.fields["capital_contributions"])
             distributions == OrZero(k1.fields["capital_distributions"])
             income        == get_total_income(k1)
             expected      == k1.fields["capital_beginning"][1] + contributions
                                + income - distributions
             actual        == k1.fields["capital_ending"][1]
         IN  Abs(expected - actual) <= TOLERANCE
    ELSE TRUE

(***************************************************************************)
(* Form type (extractor.py:258-273, 403-426)                               *)
(***************************************************************************)
\* "sub in text_lower" on an abstract text
InText(phrase, text) == phrase \in text[1].marks

\* a classifier that looks at the content keywords before the titles
detect_form_type_keywords_first(text) ==
    IF InText("partnership", text) THEN "1065"
    ELSE IF InText("s corporation", text) \/ InText("s-corporation", text) THEN "1120S"
    ELSE IF InText("estate", text) \/ InText("trust", text) THEN "1041"
    ELSE IF InText("form 1065", text) \/ InText("schedule k-1 (form 1065)", text)
    THEN "1065"
    ELSE IF InText("form 1120s", text) \/ InText("schedule k-1 (form 1120s)", text)
    THEN "1120S"
    ELSE IF InText("form 1041", text) \/ InText("schedule k-1 (form 1041)", text)
    THEN "1041"
    ELSE "unknown"

\* extractor.py:403-426
detect_form_type(text) ==
    IF InText("form 1065", text) \/ InText("schedule k-1 (form 1065)", text)
    THEN "1065"
    ELSE IF InText("form 1120s", text) \/ InText("schedule k-1 (form 1120s)", text)
    THEN "1120S"
    ELSE IF InText("form 1041", text) \/ InText("schedule k-1 (form 1041)", text)
    THEN "1041"
    ELSE IF InText("partnership", text) THEN "1065"
    ELSE IF InText("s corporation", text) \/ InText("s-corporation", text) THEN "1120S"
    ELSE IF InText("estate", text) \/ InText("trust", text) THEN "1041"
    ELSE "unknown"

upper_case == <<"A","B","C","D","E","F","G","H","I","J","K","L","M",
                "N","O","P","Q","R","S","T","U","V","W","X","Y","Z">>
lower_case == <<"a","b","c","d","e","f","g","h","i","j","k","l","m",
                "n","o","p","q","r","s","t","u","v","w","x","y","z">>

\* str.lower()
Lower(s) ==
    [i \in 1..Len(s) |->
        IF \E k \in 1..26 : upper_case[k] = s[i]
        THEN lower_case[CHOOSE k \in 1..26 : upper_case[k] = s[i]]
        ELSE s[i]]

\* sub in s
Contains(s, sub) ==
    \E i \in 1..(Len(s) - Len(sub) + 1) : SubSeq(s, i, i + Len(sub) - 1) = sub

\* extractor.py:258-273
detect_form_type_from_fields(fields) ==
    LET name_lower == Lower(fields["entity_name"])
    IN  IF "entity_name" \in DOMAIN fields
           /\ (Contains(name_lower, <<"p","a","r","t","n","e","r","s","h","i","p">>)
               \/ Contains(name_lower, <<"l","p">>))
        THEN "1065"
        ELSE IF "entity_name" \in DOMAIN fields
           /\ (Contains(name_lower, <<"c","o","r","p","o","r","a","t","i","o","n">>)
               \/ Contains(name_lower, <<"c","o","r","p">>))
        THEN "1120S"
        ELSE IF "entity_name" \in DOMAIN fields
           /\ (Contains(name_lower, <<"t","r","u","s","t">>)
               \/ Contains(name_lower, <<"e","s","t","a","t","e">>))
        THEN "1041"
        ELSE "1065"

(***************************************************************************)
(* Record creation, scoring, validation (src/extractor.py)                 *)
(***************************************************************************)
\* a record type that checks the EIN pattern on assignment and so never
\* takes a malformed EIN
create_k1_data_validating(fields, form_type, method, raw_text) ==
    [ K1Data(form_type, method, IF raw_text # EmptyText THEN Some(raw_text) ELSE None)
        EXCEPT !.fields = [f \in field_mapping |->
                             IF f \in DOMAIN fields
                                /\ (f = "ein" => Len(fields[f]) = 10)
                             THEN Some(fields[f]) ELSE None] ]

\* extractor.py:432-484
create_k1_data(fields, form_type, method, raw_text) ==
    [ K1Data(form_type, method, IF raw_text # EmptyText THEN Some(raw_text) ELSE None)
        EXCEPT !.fields = [f \in field_mapping |->
                             IF f \in DOMAIN fields THEN Some(fields[f]) ELSE None] ]

\* extractor.py:509
critical_fields == << "ein", "tax_year", "entity_name" >>

\* a scorer that trusts every method alike
method_scores_flat(method) == One

\* extractor.py:518-526
method_scores(method) ==
    CASE method = "pdf_text" -> One
      [] method = "table"    -> (9 * One) \div 10
      [] method = "layout"   -> (8 * One) \div 10
      [] method = "ocr"      -> (7 * One) \div 10
      [] method = "ml"       -> (8 * One) \div 10
      [] method = "manual"   -> One
      [] OTHER               -> (5 * One) \div 10

\* a penalty instead of the partial credit
capital_credit_penalty(k1) ==
    IF validate_capital_account(k1) THEN One \div 10 ELSE -(One \div 2)

\* extractor.py:529-533
capital_credit(k1) ==
    IF validate_capital_account(k1) THEN One \div 10 ELSE One \div 20

\* extractor.py:490-535
calculate_confidence(k1) ==
    LET completeness   == get_completeness_score(k1)
        critical_score == (CountPresent(k1, critical_fields) * One)
                             \div Len(critical_fields)
        method_score   == method_scores(k1.extraction_method)
        total          == (completeness * 4) \div 10
                          + (critical_score * 3) \div 10
                          + (method_score * 2) \div 10
                          + capital_credit(k1)
    IN  Min(total, One)

Digits == {"0","1","2","3","4","5","6","7","8","9"}

\* re.match(r'^\d{2}-\d{7}$', ein)
EinShapeOk(e) ==
    /\ Len(e) = 10
    /\ e[3] = "-"
    /\ \A i \in (1..10) \ {3} : e[i] \in Digits

DigitValue(c) == CHOOSE d \in 0..9 : Pick(<<"0","1","2","3","4","5","6","7","8","9">>, d + 1) = c

RECURSIVE ToInt(_)
\* int(s) for a string of digits
ToInt(s) == IF s = << >> THEN 0
            ELSE 10 * ToInt(SubSeq(s, 1, Len(s) - 1)) + DigitValue(s[Len(s)])

IsInt(s) == Len(s) > 0 /\ \A i \in 1..Len(s) : s[i] \in Digits

percent_fields == << "profit_sharing_percent", "loss_sharing_percent", "capital_percent" >>

RECURSIVE PercentWarnings(_, _)
PercentWarnings(k1, names) ==
    IF names = << >> THEN << >>
    ELSE LET value == k1.fields[Head(names)]
         IN  (IF value # None /\ (value[1] < 0 \/ value[1] > 100 * 100)
              THEN << <<Head(names), "outside valid range">> >> ELSE << >>)
             \o PercentWarnings(k1, Tail(names))

\* extractor.py:582-619  the list of warnings, in the order they are appended
validate_k1_data(k1) ==
    LET ein  == k1.fields["ein"]
        year == k1.fields["tax_year"]
        w1 == IF ein # None /\ ein[1] # << >> /\ ~EinShapeOk(ein[1])
              THEN << <<"EIN format may be invalid">> >> ELSE << >>
        w2 == IF year # None /\ year[1] # << >>
              THEN IF IsInt(year[1])
                   THEN IF ToInt(year[1]) < 2000 \/ ToInt(year[1]) > 2030
                        THEN << <<"Tax year seems unusual">> >> ELSE << >>
                   ELSE << <<"Tax year format invalid">> >>
              ELSE << >>
        w3 == PercentWarnings(k1, percent_fields)
        w4 == IF ~validate_capital_account(k1)
              THEN << <<"Capital account may not reconcile">> >> ELSE << >>
        w5 == IF k1.fields["capital_ending"] # None /\ k1.fields["capital_ending"][1] < 0
              THEN << <<"Ending capital account is negative">> >> ELSE << >>
    IN  w1 \o w2 \o w3 \o w4 \o w5

(***************************************************************************)
(* Merging (extractor.py:114-187)                                          *)
(***************************************************************************)
\* extractor.py:114-116  if simple_fields: extracted_fields.update(simple_fields)
merge_simple_fields(fields, new) ==
    [f \in DOMAIN fields \cup DOMAIN new |->
        IF f \in DOMAIN new THEN new[f] ELSE fields[f]]

\* extractor.py:139-147
merge_pattern_fields(fields, new) ==
    [f \in DOMAIN fields \cup DOMAIN new |->
        IF f \notin DOMAIN fields THEN new[f]
        ELSE IF f \in DOMAIN new /\ f \in entity_fields /\ new[f] # << >>
        THEN new[f]
        ELSE fields[f]]

\* a table merge written with dict.update
merge_table_fields_update(fields, new) ==
    [f \in DOMAIN fields \cup DOMAIN new |->
        IF f \in DOMAIN new THEN new[f] ELSE fields[f]]

\* extractor.py:159-162
merge_table_fields(fields, new) ==
    [f \in DOMAIN fields \cup DOMAIN new |->
        IF f \notin DOMAIN fields THEN new[f] ELSE fields[f]]

\* an OCR merge that takes only the entity fields from the OCR text
merge_ocr_fields_entity(fields, new) ==
    [f \in DOMAIN fields \cup (DOMAIN new \cap entity_fields) |->
        IF f \notin DOMAIN fields THEN new[f] ELSE fields[f]]

\* extractor.py:180-183
merge_ocr_fields(fields, new) ==
    [f \in DOMAIN fields \cup DOMAIN new |->
        IF f \notin DOMAIN fields THEN new[f] ELSE fields[f]]

\* added_count of the table and OCR loops
added_count(fields, new) == Cardinality(DOMAIN new \ DOMAIN fields)

len(d) == Cardinality(DOMAIN d)

(***************************************************************************)
(* Adapters                                                                *)
(***************************************************************************)
\* the four strategies' adapters; the text reader is pdfplumber with PyPDF2
\* as its fallback
Strategies == {"simple", "text", "table", "ocr"}
Adapters == {"simple", "pdfplumber", "pypdf2", "table", "ocr"}

\* a simple extraction that also reads the EIN, in the other variant's form
extract_k1_simple_with_ein(n, v, raised) ==
    Output(<<"ein">> \o SimpleKeys, n, IF v = 1 THEN 2 ELSE 1)

\* extractor.py:1110-1246  _extract_k1_simple: the dict built so far is
\* returned whether or not the reader raised (except at 1240, return at 1246)
extract_k1_simple(n, v, raised) == Output(SimpleKeys, n, v)

\* extractor.py:279-333  _extract_pdf_text.  Each reader either yields some
\* text of the document or none (got), and may raise (raised).
extract_pdf_text(doc, plumber, pypdf) ==
    IF plumber.got /\ ~plumber.raised THEN doc
    ELSE IF plumber.got \/ pypdf.got THEN doc
    ELSE EmptyText

\* extractor.py:311-317  PyPDF2 is tried unless pdfplumber returned text
fallback_used(plumber) == ~(plumber.got /\ ~plumber.raised)

\* extractor.py:626-711  _extract_pdf_with_tables: as for the simple
\* extraction, the dict built so far is returned after an exception
extract_pdf_with_tables(n, v, raised) == Output(TableKeys, n, v)

\* extractor.py:339-377  _extract_with_ocr: "" after an exception
extract_with_ocr(doc, raised) == IF raised THEN EmptyText ELSE doc

ReaderOutcomes == [got : BOOLEAN, raised : BOOLEAN]

(***************************************************************************)
(* ExtractionResult (models.py:368-393)                                    *)
(***************************************************************************)
ExtractionResult(success, data, method, error_message) ==
    [ success |-> success, data |-> data, extraction_method |-> method,
      error_message |-> error_message ]

NoResult == ExtractionResult(FALSE, None, "pdf_text", None)

\* extractor.py:62-67
InitStats == [ pdfs_processed |-> 0, successful_extractions |-> 0,
               failed_extractions |-> 0, avg_processing_time |-> 0 ]

NoK1 == K1Data("unknown", "pdf_text", None)

\* a document in which no adapter finds anything
NoPdf == [simple |-> EmptyDict, text |-> EmptyText, table |-> EmptyDict, ocr |-> EmptyText]

(***************************************************************************)
(* extract_from_pdf, step by step                                          *)
(***************************************************************************)
\* the table gate written with <=
table_gate_inclusive(fields) == len(fields) <= TABLE_GATE

\* the OCR gate written with <=
ocr_gate_inclusive(fields) == len(fields) <= OCR_GATE

\* an OCR adapter without its try/except
propagates_ocr(adapter) == adapter = "ocr"

\* a table gate that closes at three fields
table_gate_narrow(fields) == len(fields) < 3

\* extractor.py:154
table_gate_open(fields) == len(fields) < TABLE_GATE

\* extractor.py:171
ocr_gate_open(fields) == len(fields) < OCR_GATE

\* extractor.py:314, 330, 375, 708, 1240  every adapter wraps its reader in
\* try/except Exception and returns normally: nothing reaches the caller
propagates(adapter) == FALSE

\* where control goes after an adapter call
\* an extractor that runs a strategy again when its adapter raised
after_retrying(adapter, raised, normal) ==
    IF raised
    THEN CASE adapter = "simple" -> "simple"
           [] adapter \in {"pdfplumber", "pypdf2"} -> "text"
           [] adapter = "table" -> "table"
           [] OTHER -> "ocr"
    ELSE normal

after(adapter, raised, normal) ==
    IF raised /\ propagates(adapter) THEN "handler" ELSE normal

escaped(adapter, raised) ==
    IF raised /\ propagates(adapter) THEN "adapter" ELSE exception

Init ==
    /\ pc = "idle"
    /\ file_exists = FALSE
    /\ extracted_fields = EmptyDict
    /\ extraction_method = "pdf_text"
    /\ pdf_text = EmptyText
    /\ simple_fields = EmptyDict
    /\ pattern_fields = EmptyDict
    /\ table_fields = EmptyDict
    /\ ocr_text = EmptyText
    /\ ocr_fields = EmptyDict
    /\ invoked = {}
    /\ threw = {}
    /\ exception = "none"
    /\ k1_data = NoK1
    /\ result = NoResult
    /\ stats = InitStats
    /\ raw_value = << >> /\ cleaned = None /\ line = << >> /\ matched = {}
    /\ clock = 0 /\ pdf = NoPdf /\ runs = << >>

\* a caller invokes extract_from_pdf(pdf_path) on the instance
Call ==
    /\ pc \in {"idle", "done"}
    /\ pc' = "validate_file"
    /\ file_exists' \in BOOLEAN
    /\ extracted_fields' = EmptyDict
    /\ extraction_method' = "pdf_text"
    /\ pdf_text' = EmptyText
    /\ simple_fields' = EmptyDict
    /\ pattern_fields' = EmptyDict
    /\ table_fields' = EmptyDict
    /\ ocr_text' = EmptyText
    /\ ocr_fields' = EmptyDict
    /\ invoked' = {}
    /\ threw' = {}
    /\ exception' = "none"
    /\ k1_data' = NoK1
    /\ result' = NoResult
    /\ UNCHANGED stats
    /\ UNCHANGED catalog_vars
    /\ UNCHANGED rerun_vars

\* extractor.py:94-98
not_found_result == ExtractionResult(FALSE, None, "pdf_text", Some("File not found"))

\* extract_from_pdf without the os.path.exists test
ValidateFile_unchecked ==
    /\ pc = "validate_file"
    /\ pc' = "simple"
    /\ UNCHANGED catalog_vars
    /\ UNCHANGED rerun_vars
    /\ UNCHANGED <<file_exists, extracted_fields, extraction_method, pdf_text,
                   simple_fields, pattern_fields, table_fields, ocr_text,
                   ocr_fields, invoked, threw, exception, k1_data, result, stats>>

\* extractor.py:92-108
ValidateFile ==
    /\ pc = "validate_file"
    /\ IF ~file_exists
       THEN /\ result' = not_found_result
            /\ pc' = "done"
       ELSE /\ pc' = "simple"
            /\ UNCHANGED result
    /\ UNCHANGED catalog_vars
    /\ UNCHANGED rerun_vars
    /\ UNCHANGED <<file_exists, extracted_fields, extraction_method, pdf_text,
                   simple_fields, pattern_fields, table_fields, ocr_text,
                   ocr_fields, invoked, threw, exception, k1_data, stats>>

\* extractor.py:110-116  Strategy 1
SimpleExtraction ==
    /\ pc = "simple"
    /\ \E n \in Sizes, v \in Variants, raised \in BOOLEAN :
          /\ raised => n <= MaxPartial /\ Cardinality(threw) < MaxRaises
          /\ simple_fields' = extract_k1_simple(n, v, raised)
          /\ threw' = IF raised THEN threw \cup {"simple"} ELSE threw
          /\ pc' = after("simple", raised, "text")
          /\ exception' = escaped("simple", raised)
    /\ invoked' = invoked \cup {"simple"}
    /\ extracted_fields' = IF len(simple_fields') > 0
                           THEN merge_simple_fields(extracted_fields, simple_fields')
                           ELSE extracted_fields
    /\ UNCHANGED catalog_vars
    /\ UNCHANGED rerun_vars
    /\ UNCHANGED <<file_exists, extraction_method, pdf_text, pattern_fields,
                   table_fields, ocr_text, ocr_fields, k1_data, result, stats>>

\* extractor.py:127-150  Strategy 2
PatternExtraction ==
    /\ pc = "text"
    /\ \E doc \in Texts, plumber \in ReaderOutcomes, pypdf \in ReaderOutcomes :
          /\ (plumber.raised \/ pypdf.raised) => doc[1].n <= MaxPartial
          /\ fallback_used(plumber) \/ pypdf = [got |-> FALSE, raised |-> FALSE]
          /\ pdf_text' = extract_pdf_text(doc, plumber, pypdf)
          /\ threw' = threw \cup (IF plumber.raised THEN {"pdfplumber"} ELSE {})
                            \cup (IF fallback_used(plumber) /\ pypdf.raised
                                  THEN {"pypdf2"} ELSE {})
          /\ Cardinality(threw') <= MaxRaises
          /\ pc' = after("pdfplumber", plumber.raised,
                         after("pypdf2", fallback_used(plumber) /\ pypdf.raised, "table"))
          /\ exception' = IF plumber.raised /\ propagates("pdfplumber")
                          THEN "adapter"
                          ELSE escaped("pypdf2", fallback_used(plumber) /\ pypdf.raised)
    /\ invoked' = invoked \cup {"text"}
    /\ pattern_fields' = IF pdf_text' # EmptyText
                         THEN extract_all_fields(pdf_text') ELSE EmptyDict
    /\ extracted_fields' = IF len(pattern_fields') > 0
                           THEN merge_pattern_fields(extracted_fields, pattern_fields')
                           ELSE extracted_fields
    /\ UNCHANGED catalog_vars
    /\ UNCHANGED rerun_vars
    /\ UNCHANGED <<file_exists, extraction_method, simple_fields, table_fields,
                   ocr_text, ocr_fields, k1_data, result, stats>>

\* extractor.py:152-167  Strategy 3, gate closed
SkipTables ==
    /\ pc = "table"
    /\ ~table_gate_open(extracted_fields)
    /\ pc' = "ocr"
    /\ UNCHANGED catalog_vars
    /\ UNCHANGED rerun_vars
    /\ UNCHANGED <<file_exists, extracted_fields, extraction_method, pdf_text,
                   simple_fields, pattern_fields, table_fields, ocr_text,
                   ocr_fields, invoked, threw, exception, k1_data, result, stats>>

\* extractor.py:152-167  Strategy 3, gate open
TableExtraction ==
    /\ pc = "table"
    /\ table_gate_open(extracted_fields)
    /\ \E n \in Sizes, v \in Variants, raised \in BOOLEAN :
          /\ raised => n <= MaxPartial /\ Cardinality(threw) < MaxRaises
          /\ table_fields' = extract_pdf_with_tables(n, v, raised)
          /\ threw' = IF raised THEN threw \cup {"table"} ELSE threw
          /\ pc' = after("table", raised, "ocr")
          /\ exception' = escaped("table", raised)
    /\ invoked' = invoked \cup {"table"}
    /\ extracted_fields' = IF len(table_fields') > 0
                           THEN merge_table_fields(extracted_fields, table_fields')
                           ELSE extracted_fields
    /\ extraction_method' =
          IF len(table_fields') > 0
             /\ added_count(extracted_fields, table_fields') > TABLE_TAG_MIN
          THEN "table" ELSE extraction_method
    /\ UNCHANGED catalog_vars
    /\ UNCHANGED rerun_vars
    /\ UNCHANGED <<file_exists, pdf_text, simple_fields, pattern_fields,
                   ocr_text, ocr_fields, k1_data, result, stats>>

\* extractor.py:169-187  Strategy 4, gate closed
SkipOcr ==
    /\ pc = "ocr"
    /\ ~ocr_gate_open(extracted_fields)
    /\ pc' = "create"
    /\ UNCHANGED catalog_vars
    /\ UNCHANGED rerun_vars
    /\ UNCHANGED <<file_exists, extracted_fields, extraction_method, pdf_text,
                   simple_fields, pattern_fields, table_fields, ocr_text,
                   ocr_fields, invoked, threw, exception, k1_data, result, stats>>

\* extractor.py:169-187  Strategy 4, gate open
OcrExtraction ==
    /\ pc = "ocr"
    /\ ocr_gate_open(extracted_fields)
    /\ \E doc \in Texts \cup {EmptyText}, raised \in BOOLEAN :
          /\ raised => doc = EmptyText /\ Cardinality(threw) < MaxRaises
          /\ ocr_text' = extract_with_ocr(doc, raised)
          /\ threw' = IF raised THEN threw \cup {"ocr"} ELSE threw
          /\ pc' = after("ocr", raised, "create")
          /\ exception' = escaped("ocr", raised)
    /\ invoked' = invoked \cup {"ocr"}
    /\ ocr_fields' = IF ocr_text' # EmptyText
                     THEN extract_all_fields(ocr_text') ELSE EmptyDict
    /\ extracted_fields' = IF len(ocr_fields') > 0
                           THEN merge_ocr_fields(extracted_fields, ocr_fields')
                           ELSE extracted_fields
    /\ extraction_method' =
          IF len(ocr_fields') > 0
             /\ 2 * added_count(extracted_fields, ocr_fields') > len(extracted_fields')
          THEN "ocr" ELSE extraction_method
    /\ UNCHANGED catalog_vars
    /\ UNCHANGED rerun_vars
    /\ UNCHANGED <<file_exists, pdf_text, simple_fields, pattern_fields,
                   table_fields, k1_data, result, stats>>

\* a classification that falls back on the text read by OCR
form_type_of_any_text(text, fields) ==
    IF text # EmptyText THEN detect_form_type(text)
    ELSE IF ocr_text # EmptyText THEN detect_form_type(ocr_text)
    ELSE detect_form_type_from_fields(fields)

\* extractor.py:189-193
form_type_of(text, fields) ==
    IF text # EmptyText THEN detect_form_type(text)
    ELSE detect_form_type_from_fields(fields)

\* extractor.py:205-207  k1_data.confidence_score = confidence
with_confidence(k1) == [k1 EXCEPT !.confidence_score = calculate_confidence(k1)]

\* a validator that also marks the score down when it warns
with_warnings_rescored(k1) ==
    [k1 EXCEPT !.warnings = @ \o validate_k1_data(k1),
               !.confidence_score = IF validate_k1_data(k1) # << >>
                                    THEN (@ * 9) \div 10 ELSE @]

\* extractor.py:209-213  k1_data.warnings.extend(validation_warnings)
with_warnings(k1) == [k1 EXCEPT !.warnings = @ \o validate_k1_data(k1)]

\* extractor.py:189-213  form type, K1Data object, confidence, validation
Finalize ==
    /\ pc = "create"
    /\ k1_data' = with_warnings(with_confidence(
                     create_k1_data(extracted_fields,
                                    form_type_of(pdf_text, extracted_fields),
                                    extraction_method, pdf_text)))
    /\ pc' = "return"
    /\ UNCHANGED catalog_vars
    /\ UNCHANGED rerun_vars
    /\ UNCHANGED <<file_exists, extracted_fields, extraction_method, pdf_text,
                   simple_fields, pattern_fields, table_fields, ocr_text,
                   ocr_fields, invoked, threw, exception, result, stats>>

\* a result that carries the initial tag instead of the local variable
success_result_initial_tag == ExtractionResult(TRUE, Some(k1_data), "pdf_text", None)

\* extractor.py:232-240
success_result == ExtractionResult(TRUE, Some(k1_data), extraction_method, None)

\* an extractor that counts the records it returns
ReturnResult_counting ==
    /\ pc = "return"
    /\ result' = success_result
    /\ stats' = [stats EXCEPT !["successful_extractions"] = @ + 1]
    /\ pc' = "done"
    /\ UNCHANGED catalog_vars
    /\ UNCHANGED rerun_vars
    /\ UNCHANGED <<file_exists, extracted_fields, extraction_method, pdf_text,
                   simple_fields, pattern_fields, table_fields, ocr_text,
                   ocr_fields, invoked, threw, exception, k1_data>>

\* extractor.py:215-240
ReturnResult ==
    /\ pc = "return"
    /\ result' = success_result
    /\ pc' = "done"
    /\ UNCHANGED catalog_vars
    /\ UNCHANGED rerun_vars
    /\ UNCHANGED <<file_exists, extracted_fields, extraction_method, pdf_text,
                   simple_fields, pattern_fields, table_fields, ocr_text,
                   ocr_fields, invoked, threw, exception, k1_data, stats>>

\* extractor.py:215-240  a statement of the try block outside the adapters'
\* own handlers raises (the final logging and the construction of the
\* result).  No statement of the block raises on the values the adapters
\* return, so the cause is left open: an I/O error of print, MemoryError.
RaiseUnexpected ==
    /\ pc = "return"
    /\ exception' = "other"
    /\ pc' = "handler"
    /\ UNCHANGED catalog_vars
    /\ UNCHANGED rerun_vars
    /\ UNCHANGED <<file_exists, extracted_fields, extraction_method, pdf_text,
                   simple_fields, pattern_fields, table_fields, ocr_text,
                   ocr_fields, invoked, threw, k1_data, result, stats>>

\* an except handler that hands back the record built so far
failure_result_with_data ==
    ExtractionResult(FALSE, Some(k1_data), extraction_method, Some("Extraction failed"))

\* extractor.py:250-256
failure_result == ExtractionResult(FALSE, None, "pdf_text", Some("Extraction failed"))

\* extractor.py:242-256  except Exception
HandleException ==
    /\ pc = "handler"
    /\ result' = failure_result
    /\ pc' = "done"
    /\ UNCHANGED catalog_vars
    /\ UNCHANGED rerun_vars
    /\ UNCHANGED <<file_exists, extracted_fields, extraction_method, pdf_text,
                   simple_fields, pattern_fields, table_fields, ocr_text,
                   ocr_fields, invoked, threw, exception, k1_data, stats>>

Next ==
    \/ Call
    \/ ValidateFile
    \/ SimpleExtraction
    \/ PatternExtraction
    \/ SkipTables
    \/ TableExtraction
    \/ SkipOcr
    \/ OcrExtraction
    \/ Finalize
    \/ ReturnResult
    \/ RaiseUnexpected
    \/ HandleException

Spec == Init /\ [][Next]_vars

(***************************************************************************)
(* Scoring and validation of a record on their own: the record is any      *)
(* K1Data that _create_k1_data's setattr loop can fill, under any of the   *)
(* ExtractionMethod tags                                                   *)
(***************************************************************************)
Methods == {"pdf_text", "ocr", "table", "layout", "ml", "manual"}

Opt(S) == {None} \cup {Some(x) : x \in S}

RecordOf(method, ein, tax_year, entity_name, partner_name, box_1, beginning, contributions, distributions, ending) ==
    [ K1Data("unknown", method, None) EXCEPT
        !.fields = [f \in field_mapping |->
            CASE f = "ein"                   -> ein
              [] f = "tax_year"              -> tax_year
              [] f = "entity_name"           -> entity_name
              [] f = "partner_name"          -> partner_name
              [] f = "box_1_ordinary_income" -> box_1
              [] f = "capital_beginning"     -> beginning
              [] f = "capital_contributions" -> contributions
              [] f = "capital_distributions" -> distributions
              [] f = "capital_ending"        -> ending
              [] OTHER                       -> None] ]

\* amounts in cents; they include the two capital accounts of this
\* repository's reconciliation examples and endings one cent either side of
\* the tolerance
Records ==
    { RecordOf(m, e, y, n, p, b1, cb, cc, cd, ce) :
        m \in Methods,
        e \in Opt({ein_values[1], ein_values[2]}),
        y \in Opt({tax_year_values[1]}),
        n \in Opt({entity_name_values[1]}),
        p \in Opt({<<"J","o","h","n"," ","D","o","e">>}),
        b1 \in Opt({5000000, 10000000}),
        cb \in Opt({10000000, 50000000}),
        cc \in Opt({0, 2500000}),
        cd \in Opt({0, 5000000}),
        ce \in Opt({17500000, 17500100, 17500101, 17499900, 17499899, 55900000}) }

\* records that already carry a warning when they reach the validator
\* (models.py:227  warnings is an ordinary list of the record)
Annotated ==
    { [RecordOf("table", e, None, None, None, None, cb, None, cd, ce)
          EXCEPT !.warnings = << <<"earlier warning">> >>] :
        e \in Opt({ein_values[1], ein_values[2]}),
        cb \in Opt({10000000}),
        cd \in Opt({0}),
        ce \in Opt({10000000, 17500000}) }

\* records with the income boxes get_total_income leaves out of its list
\* (models.py:265-276 has no box 6b and no box 10), with and without a
\* capital account
Gains ==
    { [RecordOf("pdf_text", None, None, None, None, b1, cb, None, cd, ce)
          EXCEPT !.fields["box_6b_qualified_dividends"] = q,
                 !.fields["box_10_net_1231_gain"] = g] :
        b1 \in Opt({5000000}),
        q \in Opt({100000}),
        g \in Opt({2500000}),
        cb \in Opt({10000000}),
        cd \in Opt({0}),
        ce \in Opt({15000000, 17500000}) }

InitRecord ==
    /\ pc = "confidence"
    /\ k1_data \in Records \cup Annotated \cup Gains
    /\ file_exists = TRUE
    /\ extracted_fields = EmptyDict
    /\ extraction_method = "pdf_text"
    /\ pdf_text = EmptyText
    /\ simple_fields = EmptyDict
    /\ pattern_fields = EmptyDict
    /\ table_fields = EmptyDict
    /\ ocr_text = EmptyText
    /\ ocr_fields = EmptyDict
    /\ invoked = {}
    /\ threw = {}
    /\ exception = "none"
    /\ result = NoResult
    /\ stats = InitStats
    /\ raw_value = << >> /\ cleaned = None /\ line = << >> /\ matched = {}
    /\ clock = 0 /\ pdf = NoPdf /\ runs = << >>

\* extractor.py:205-207
CalculateConfidence ==
    /\ pc = "confidence"
    /\ k1_data' = with_confidence(k1_data)
    /\ pc' = "validate"
    /\ UNCHANGED catalog_vars
    /\ UNCHANGED rerun_vars
    /\ UNCHANGED <<file_exists, extracted_fields, extraction_method, pdf_text,
                   simple_fields, pattern_fields, table_fields, ocr_text,
                   ocr_fields, invoked, threw, exception, result, stats>>

\* extractor.py:209-213
Validate ==
    /\ pc = "validate"
    /\ k1_data' = with_warnings(k1_data)
    /\ pc' = "validated"
    /\ UNCHANGED catalog_vars
    /\ UNCHANGED rerun_vars
    /\ UNCHANGED <<file_exists, extracted_fields, extraction_method, pdf_text,
                   simple_fields, pattern_fields, table_fields, ocr_text,
                   ocr_fields, invoked, threw, exception, result, stats>>

NextRecord == CalculateConfidence \/ Validate

SpecRecord == InitRecord /\ [][NextRecord]_vars

(***************************************************************************)
(* The catalog's normalizers and box rules on concrete strings             *)
(* (src/patterns.py).  A string is a sequence of one-character strings; a  *)
(* float is held in cents.                                                 *)
(***************************************************************************)
\* str.replace(c, '') for each c of chars
Remove(s, chars) == SelectSeq(s, LAMBDA c : c \notin chars)

RECURSIVE LStrip(_)
LStrip(s) == IF s # << >> /\ Head(s) = " " THEN LStrip(Tail(s)) ELSE s

RECURSIVE RStrip(_)
RStrip(s) == IF s # << >> /\ s[Len(s)] = " " THEN RStrip(SubSeq(s, 1, Len(s) - 1)) ELSE s

\* str.strip()
Strip(s) == LStrip(RStrip(s))

AllDigits(s) == \A i \in 1..Len(s) : s[i] \in Digits

\* the position of the first "." of s, or Len(s) + 1
DotAt(s) == IF \E i \in 1..Len(s) : s[i] = "."
            THEN CHOOSE i \in 1..Len(s) : s[i] = "." /\ \A k \in 1..(i - 1) : s[k] # "."
            ELSE Len(s) + 1

\* float(s) accepts an unsigned decimal literal: digits with at most one
\* point and at least one digit (of the characters of Alphabet, float()
\* accepts nothing else but a sign and surrounding blanks)
IsDecimal(s) ==
    LET whole == SubSeq(s, 1, DotAt(s) - 1)
        frac  == SubSeq(s, DotAt(s) + 1, Len(s))
    IN  /\ AllDigits(whole) /\ AllDigits(frac)
        /\ Len(whole) + Len(frac) > 0

Unsigned(s) == IF s # << >> /\ Head(s) \in {"-", "+"} THEN Tail(s) ELSE s

\* float(s) does not raise ValueError
IsFloat(s) == IsDecimal(Unsigned(Strip(s)))

\* the value of a decimal literal with at most two decimals, in cents
DecimalCents(s) ==
    LET whole == SubSeq(s, 1, DotAt(s) - 1)
        frac  == SubSeq(s, DotAt(s) + 1, Len(s))
    IN  100 * ToInt(whole)
          + (IF Len(frac) = 0 THEN 0
             ELSE IF Len(frac) = 1 THEN 10 * ToInt(frac)
             ELSE ToInt(SubSeq(frac, 1, 2)))

\* float(s), in cents
Float(s) ==
    LET t == Strip(s)
    IN  IF t # << >> /\ Head(t) = "-" THEN -DecimalCents(Tail(t))
        ELSE DecimalCents(Unsigned(t))

\* patterns.py:267-295
clean_currency(v) ==
    IF v = << >> THEN 0
    ELSE LET c == Strip(Remove(v, {"$", ","}))
             n == IF c # << >> /\ Head(c) = "-" THEN c
                  ELSE IF c # << >> /\ Head(c) = "(" /\ c[Len(c)] = ")"
                  THEN <<"-">> \o SubSeq(c, 2, Len(c) - 1)
                  ELSE IF c # << >> /\ c[Len(c)] = "-"
                  THEN SubSeq(c, 1, Len(c) - 1)
                  ELSE c
         IN  IF IsFloat(n) THEN Float(n) ELSE 0

\* patterns.py:297-314
clean_percentage(v) ==
    IF v = << >> THEN 0
    ELSE LET c == Strip(Remove(v, {"%"}))
         IN  IF IsFloat(c) THEN Float(c) ELSE 0

\* the group ([\-\$]?[\d,]+\.?\d*) of the box and capital rules matches
\* the whole of s (patterns.py:141, 222)
CapturedShape(s) ==
    LET body == IF s # << >> /\ Head(s) \in {"-", "$"} THEN Tail(s) ELSE s
        head == SubSeq(body, 1, DotAt(body) - 1)
        tail == SubSeq(body, DotAt(body) + 1, Len(body))
    IN  /\ Len(head) > 0
        /\ \A i \in 1..Len(head) : head[i] \in Digits \cup {","}
        /\ AllDigits(tail)

\* patterns.py:187-207  the number each box rule is built from; the boxes
\* 1, 2, 3, 4, 5, 7 and 8 carry the lookahead (?![0-9])
box_number(field) ==
    CASE field = "box_1_ordinary_income"       -> <<"1">>
      [] field = "box_2_rental_real_estate"    -> <<"2">>
      [] field = "box_3_other_rental"          -> <<"3">>
      [] field = "box_4_guaranteed_payments"   -> <<"4">>
      [] field = "box_5_interest_income"       -> <<"5">>
      [] field = "box_6a_ordinary_dividends"   -> <<"6", "a">>
      [] field = "box_6b_qualified_dividends"  -> <<"6", "b">>
      [] field = "box_7_royalties"             -> <<"7">>
      [] field = "box_8_net_short_term_gain"   -> <<"8">>
      [] field = "box_9a_net_long_term_gain"   -> <<"9", "a">>
      [] field = "box_10_net_1231_gain"        -> <<"1", "0">>
      [] field = "box_11_other_income"         -> <<"1", "1">>
      [] field = "box_12_section_179"          -> <<"1", "2">>
      [] field = "box_13_other_deductions"     -> <<"1", "3">>
      [] field = "box_14_self_employment"      -> <<"1", "4">>
      [] field = "box_15_credits"              -> <<"1", "5">>
      [] field = "box_16_foreign_transactions" -> <<"1", "6">>
      [] field = "box_17_amt_items"            -> <<"1", "7">>
      [] field = "box_18_tax_exempt"           -> <<"1", "8">>
      [] field = "box_19_distributions"        -> <<"1", "9">>
      [] OTHER                                 -> <<"2", "0">>

\* patterns.py:187-207  the keys of the dict get_box_patterns returns
pattern_boxes ==
    { box_mapping[i] : i \in 1..Len(box_mapping) }
        \ {"box_9b_collectibles_gain", "box_9c_unrecaptured_1250"}

has_lookahead(field) == Len(box_number(field)) = 1

\* the rule's number stands at position i of s: the number itself and,
\* for the single-digit boxes, no digit right after it
NumberAt(s, i, field) ==
    LET num  == box_number(field)
        next == i + Len(num)
    IN  /\ next - 1 <= Len(s)
        /\ Lower(SubSeq(s, i, next - 1)) = num
        /\ has_lookahead(field) => (next > Len(s) \/ s[next] \notin Digits)

\* the position after the optional "." that may follow the number
AfterDot(s, j) == IF j <= Len(s) /\ s[j] = "." THEN j + 1 ELSE j

\* a character the captured group can start its digits with
ValueChar(c) == c \in Digits \cup {","}

\* patterns.py:145-150  pattern 2 on a text of one line:
\* ^\s*(?:Box\s+)?N\.?\s+.*?(value)
Pattern2(s, field) ==
    \E i \in 1..Len(s) :
        /\ \/ \A k \in 1..(i - 1) : s[k] = " "
           \/ \E b \in 1..(i - 4) :
                 /\ \A k \in 1..(b - 1) : s[k] = " "
                 /\ Lower(SubSeq(s, b, b + 2)) = <<"b", "o", "x">>
                 /\ \A k \in (b + 3)..(i - 1) : s[k] = " "
        /\ NumberAt(s, i, field)
        /\ LET j == AfterDot(s, i + Len(box_number(field)))
           IN  /\ j <= Len(s) /\ s[j] = " "
               /\ \E p \in (j + 1)..Len(s) : ValueChar(s[p])

\* patterns.py:172-177  pattern 5 on a text of one line:
\* (?:Box\s+)?N\.?\s+\S+.*?(value), found anywhere in the text
Pattern5(s, field) ==
    \E i \in 1..Len(s) :
        /\ NumberAt(s, i, field)
        /\ LET j == AfterDot(s, i + Len(box_number(field)))
           IN  /\ j <= Len(s) /\ s[j] = " "
               /\ \E a \in (j + 1)..Len(s) :
                     /\ \A k \in j..(a - 1) : s[k] = " "
                     /\ s[a] # " "
                     /\ \E p \in (a + 1)..Len(s) : ValueChar(s[p])

\* patterns.py:346-352  some rule of the box matches the one-line text.
\* Patterns 1 and 4 (136-141, 163-168) are pattern 5 with the keywords in
\* place of \S+, so on one line they match only where pattern 5 does;
\* pattern 3 (154-159) needs a line break.
box_rule_matches(s, field) == Pattern2(s, field) \/ Pattern5(s, field)

\* patterns.py:346-352  the box fields extract_all_fields populates
matched_boxes(s) == {f \in pattern_boxes : box_rule_matches(s, f)}

(***************************************************************************)
(* The catalog's pure functions applied to bounded inputs                  *)
(***************************************************************************)
\* magnitudes as they are printed, with their value in cents; the last
\* three hold no digit
Magnitudes ==
    { [text |-> <<"1", ",", "2", "3", "4", ".", "5", "6">>, cents |-> 123456],
      [text |-> <<"1", "2", "3", "4", ".", "5", "6">>,      cents |-> 123456],
      [text |-> <<"5">>,                                    cents |-> 500],
      [text |-> <<"0", ".", "5">>,                          cents |-> 50],
      [text |-> <<",">>,                                    cents |-> 0],
      [text |-> <<"N", "/", "A">>,                          cents |-> 0],
      [text |-> << >>,                                      cents |-> 0] }

Numeric(m) == \E i \in 1..Len(m.text) : m.text[i] \in Digits

Token(prefix, m, suffix) == prefix \o m.text \o suffix

\* raw tokens: a magnitude with a currency sign, parentheses, a leading
\* or a trailing dash
Tokens ==
    { Token(prefix, m, suffix) :
        prefix \in { << >>, <<"$">>, <<"-">>, <<"(">>, <<"-", "$">>, <<"(", "$">> },
        m \in Magnitudes,
        suffix \in { << >>, <<"-">>, <<")">> } }

\* one-line texts: an optional "Box", a box number of one or two digits,
\* a description and an amount
Lines ==
    { prefix \o first \o second \o <<" ">> \o rest :
        prefix \in { << >>, <<"B", "o", "x", " ">> },
        first  \in { <<"1">>, <<"2">>, <<"3">>, <<"4">>, <<"5">>, <<"7">>, <<"8">> },
        second \in { << >>, <<"0">>, <<"1">>, <<"2">> },
        rest   \in { <<"O","t","h","e","r"," ","i","n","c","o","m","e"," ","5","0","0">>,
                     <<"N","e","t"," ","s","e","c","t","i","o","n"," ","1","2","3","1",
                       " ","g","a","i","n"," ","5","0","0">>,
                     <<"C","r","e","d","i","t","s"," ","4","0">> } }

\* extractor.py:411-424  the phrases _detect_form_type looks for
Phrases ==
    { "form 1065", "schedule k-1 (form 1065)", "form 1120s",
      "schedule k-1 (form 1120s)", "form 1041", "schedule k-1 (form 1041)",
      "partnership", "s corporation", "s-corporation", "estate", "trust" }

\* a phrase, character by character
PhraseChars(phrase) ==
    CASE
         phrase = "form 1065" -> <<"f","o","r","m"," ","1","0","6","5">>
      [] phrase = "schedule k-1 (form 1065)" -> <<"s","c","h","e","d","u","l","e"," ","k","-","1"," ","(","f","o","r","m"," ","1","0","6","5",")">>
      [] phrase = "form 1120s" -> <<"f","o","r","m"," ","1","1","2","0","s">>
      [] phrase = "schedule k-1 (form 1120s)" -> <<"s","c","h","e","d","u","l","e"," ","k","-","1"," ","(","f","o","r","m"," ","1","1","2","0","s",")">>
      [] phrase = "form 1041" -> <<"f","o","r","m"," ","1","0","4","1">>
      [] phrase = "schedule k-1 (form 1041)" -> <<"s","c","h","e","d","u","l","e"," ","k","-","1"," ","(","f","o","r","m"," ","1","0","4","1",")">>
      [] phrase = "partnership" -> <<"p","a","r","t","n","e","r","s","h","i","p">>
      [] phrase = "s corporation" -> <<"s"," ","c","o","r","p","o","r","a","t","i","o","n">>
      [] phrase = "s-corporation" -> <<"s","-","c","o","r","p","o","r","a","t","i","o","n">>
      [] phrase = "estate" -> <<"e","s","t","a","t","e">>
      [] OTHER -> <<"t","r","u","s","t">>

\* extractor.py:409-424  the text as _detect_form_type sees it: the
\* phrases that occur in text.lower()
TextOf(chars) ==
    LET lower == Lower(chars)
    IN  << [n |-> 0, v |-> 1,
            marks |-> {ph \in Phrases : Contains(lower, PhraseChars(ph))}] >>

\* pieces of a document's text: titles and content words
Fragments ==
    { <<"F","o","r","m"," ","1","0","6","5">>,
      <<"F","o","r","m"," ","1","1","2","0","S">>,
      <<"F","o","r","m"," ","1","0","4","1">>,
      <<"S","c","h","e","d","u","l","e"," ","K","-","1"," ","(","F","o","r","m"," ","1","1","2","0","S",")">>,
      <<"P","a","r","t","n","e","r","s","h","i","p">>,
      <<"S"," ","C","o","r","p","o","r","a","t","i","o","n">>,
      <<"T","r","u","s","t">>,
      <<"E","s","t","a","t","e">>,
      << >> }

\* non-empty texts made of three pieces
TitleTexts ==
    { a \o <<" ">> \o b \o <<" ">> \o c : a \in Fragments, b \in Fragments, c \in Fragments }

InitCatalog ==
    /\ pc = "catalog"
    /\ raw_value = << >> /\ cleaned = None /\ line = << >> /\ matched = {}
    /\ clock = 0 /\ pdf = NoPdf /\ runs = << >>
    /\ file_exists = FALSE
    /\ extracted_fields = EmptyDict
    /\ extraction_method = "pdf_text"
    /\ pdf_text = EmptyText
    /\ simple_fields = EmptyDict
    /\ pattern_fields = EmptyDict
    /\ table_fields = EmptyDict
    /\ ocr_text = EmptyText
    /\ ocr_fields = EmptyDict
    /\ invoked = {}
    /\ threw = {}
    /\ exception = "none"
    /\ k1_data = NoK1
    /\ result = NoResult
    /\ stats = InitStats

extractor_vars ==
    <<file_exists, extracted_fields, extraction_method, pdf_text, simple_fields,
      table_fields, ocr_text, ocr_fields, invoked, threw, exception, k1_data,
      result, stats>>

\* patterns.py:267-295  clean_currency(value)
CleanCurrency ==
    /\ pc = "catalog"
    /\ \E v \in Tokens :
          /\ raw_value' = v
          /\ cleaned' = Some(clean_currency(v))
    /\ pc' = "cleaned"
    /\ UNCHANGED <<line, matched, pattern_fields>>
    /\ UNCHANGED extractor_vars
    /\ UNCHANGED rerun_vars

\* patterns.py:346-361  a box or capital rule whose group captured the
\* token: results[field_name] = cls.clean_currency(match.group(1))
StoreCaptured ==
    /\ pc = "cleaned"
    /\ \E f \in {"box_1_ordinary_income", "capital_beginning"} :
          pattern_fields' = IF CapturedShape(raw_value)
                            THEN [g \in {f} |-> clean_currency(raw_value)]
                            ELSE EmptyDict
    /\ pc' = "stored"
    /\ UNCHANGED <<raw_value, cleaned, line, matched>>
    /\ UNCHANGED extractor_vars
    /\ UNCHANGED rerun_vars

\* patterns.py:346-352  the box loop of extract_all_fields on a one-line text
MatchLine ==
    /\ pc = "catalog"
    /\ \E l \in Lines :
          /\ line' = l
          /\ matched' = matched_boxes(l)
    /\ pc' = "matched"
    /\ UNCHANGED <<raw_value, cleaned, pattern_fields>>
    /\ UNCHANGED extractor_vars
    /\ UNCHANGED rerun_vars

\* extractor.py:189-191, 403-426  _detect_form_type(pdf_text) on a non-empty text
DetectFormType ==
    /\ pc = "catalog"
    /\ \E t \in TitleTexts :
          /\ line' = t
          /\ pdf_text' = TextOf(t)
          /\ k1_data' = [k1_data EXCEPT !.form_type = detect_form_type(pdf_text')]
    /\ pc' = "classified"
    /\ UNCHANGED <<raw_value, cleaned, matched, pattern_fields>>
    /\ UNCHANGED <<file_exists, extracted_fields, extraction_method, simple_fields,
                   table_fields, ocr_text, ocr_fields, invoked, threw, exception,
                   result, stats>>
    /\ UNCHANGED rerun_vars

NextCatalog == CleanCurrency \/ StoreCaptured \/ MatchLine \/ DetectFormType

SpecCatalog == InitCatalog /\ [][NextCatalog]_vars

(***************************************************************************)
(* Repeated calls on one document                                          *)
\* extractor.py:110, 128, 156, 173  what the adapters read from the file of
\* the call in progress
this_call ==
    [simple |-> simple_fields, text |-> pdf_text, table |-> table_fields, ocr |-> ocr_text]

(***************************************************************************)
\* extractor.py:106-213  the record extract_from_pdf builds from what the
\* adapters read: the four stages with their gates, then form type,
\* record, confidence and validation
record_of(p) ==
    LET s1 == IF len(p.simple) > 0
              THEN merge_simple_fields(EmptyDict, p.simple) ELSE EmptyDict
        pf == IF p.text # EmptyText THEN extract_all_fields(p.text) ELSE EmptyDict
        s2 == IF len(pf) > 0 THEN merge_pattern_fields(s1, pf) ELSE s1
        tf == IF table_gate_open(s2) THEN p.table ELSE EmptyDict
        s3 == IF len(tf) > 0 THEN merge_table_fields(s2, tf) ELSE s2
        m3 == IF len(tf) > 0 /\ added_count(s2, tf) > TABLE_TAG_MIN
              THEN "table" ELSE "pdf_text"
        ot == IF ocr_gate_open(s3) THEN p.ocr ELSE EmptyText
        of == IF ot # EmptyText THEN extract_all_fields(ot) ELSE EmptyDict
        s4 == IF len(of) > 0 THEN merge_ocr_fields(s3, of) ELSE s3
        m4 == IF len(of) > 0 /\ 2 * added_count(s3, of) > len(s4)
              THEN "ocr" ELSE m3
    IN  with_warnings(with_confidence(
            create_k1_data(s4, form_type_of(p.text, s4), m4, p.text)))

\* models.py:48  extraction_timestamp: datetime = Field(default_factory=datetime.now)
\* the record with the metadata field the constructor fills from the clock
Stamped(k1, t) ==
    [k \in DOMAIN k1 \cup {"extraction_timestamp"} |->
        IF k = "extraction_timestamp" THEN t ELSE k1[k]]

\* largest advance of the clock between two readings
MaxTick == 2

\* the documents of the repeated calls
Pdfs ==
    [ simple : {Output(SimpleKeys, n, v) : n \in {0, 1, 5}, v \in Variants},
      text   : {EmptyText, DocText(3, 1), DocText(3, 2)},
      table  : {Output(TableKeys, n, v) : n \in {0, 7}, v \in Variants},
      ocr    : {EmptyText, DocText(2, 2)} ]

InitRerun ==
    /\ pc = "rerun"
    /\ clock = 0 /\ pdf \in Pdfs /\ runs = << >>
    /\ raw_value = << >> /\ cleaned = None /\ line = << >> /\ matched = {}
    /\ file_exists = TRUE
    /\ extracted_fields = EmptyDict
    /\ extraction_method = "pdf_text"
    /\ pdf_text = EmptyText
    /\ simple_fields = EmptyDict
    /\ pattern_fields = EmptyDict
    /\ table_fields = EmptyDict
    /\ ocr_text = EmptyText
    /\ ocr_fields = EmptyDict
    /\ invoked = {}
    /\ threw = {}
    /\ exception = "none"
    /\ k1_data = NoK1
    /\ result = NoResult
    /\ stats = InitStats

\* extractor.py:79-240  one more call on the same document; the clock has
\* advanced when _create_k1_data constructs the record
Rerun ==
    /\ pc = "rerun"
    /\ Len(runs) < 2
    /\ \E d \in 1..MaxTick :
          /\ clock' = clock + d
          /\ runs' = Append(runs, Stamped(record_of(pdf), clock'))
    /\ UNCHANGED <<pc, pdf, pattern_fields>>
    /\ UNCHANGED extractor_vars
    /\ UNCHANGED catalog_vars

NextRerun == Rerun

SpecRerun == InitRerun /\ [][NextRerun]_vars

(***************************************************************************)
(* Properties of extract_from_pdf (specification Spec)                     *)
(***************************************************************************)
Range(seq) == {seq[i] : i \in 1..Len(seq)}

\* every key an adapter can produce whose name starts with box_ or capital_
BoxCapitalFields ==
    (Range(SimpleKeys) \cup Range(PatternKeys) \cup Range(TableKeys))
        \ (entity_fields \cup {"profit_sharing_percent", "loss_sharing_percent"})

\* the output of the first / the last stage of this call that produced f
FirstValue(f) ==
    IF f \in DOMAIN simple_fields THEN simple_fields[f]
    ELSE IF f \in DOMAIN pattern_fields THEN pattern_fields[f]
    ELSE IF f \in DOMAIN table_fields THEN table_fields[f]
    ELSE ocr_fields[f]

LastValue(f) ==
    IF f \in DOMAIN ocr_fields THEN ocr_fields[f]
    ELSE IF f \in DOMAIN table_fields THEN table_fields[f]
    ELSE IF f \in DOMAIN pattern_fields THEN pattern_fields[f]
    ELSE simple_fields[f]

Produced(f) ==
    f \in DOMAIN simple_fields \cup DOMAIN pattern_fields
          \cup DOMAIN table_fields \cup DOMAIN ocr_fields

Returned == pc = "done" /\ file_exists

C2_EntityLaterWins ==
    (Returned /\ result.success) =>
        \A f \in entity_fields :
            (Produced(f) /\ LastValue(f) # << >> /\ LastValue(f) # FirstValue(f))
                => result.data[1].fields[f] = Some(LastValue(f))

\* the table stage has run in this call exactly when stages 1 and 2 left
\* fewer than 15 fields
TableGateRespected ==
    /\ pc \in {"idle", "validate_file", "simple", "text", "table"}
          => "table" \notin invoked
    /\ (pc \in {"ocr", "create", "return", "handler", "done"} /\ file_exists)
          => ("table" \in invoked
                <=> Cardinality(DOMAIN simple_fields \cup DOMAIN pattern_fields) < 15)

\* C3: on an existing file the table stage is invoked if and only if the
\* number of fields accumulated after stages 1 and 2 is below 15; with 15
\* or more it is never invoked.
C3_TableGate == TableGateRespected

\* stages 1 and 2 gave exactly 15 fields and the table stage was not invoked
C3_Witness ==
    /\ Returned /\ result.success
    /\ Cardinality(DOMAIN simple_fields \cup DOMAIN pattern_fields) = 15
    /\ "table" \notin invoked

\* the OCR stage has run in this call exactly when stages 1 to 3 left
\* fewer than 5 fields
OcrGateRespected ==
    /\ pc \in {"idle", "validate_file", "simple", "text", "table", "ocr"}
          => "ocr" \notin invoked
    /\ (pc \in {"create", "return", "handler", "done"} /\ file_exists)
          => ("ocr" \in invoked
                <=> Cardinality(DOMAIN simple_fields \cup DOMAIN pattern_fields
                                  \cup DOMAIN table_fields) < 5)

\* C4: the OCR stage is invoked if and only if the number of accumulated
\* fields, counted after the table stage's merge (after stage 2 when the
\* table stage was skipped), is below 5.
C4_OcrGate == OcrGateRespected

\* the table stage ran, lifted the count from 2 to 4, and OCR was invoked
C4_Witness ==
    /\ Returned /\ result.success
    /\ "table" \in invoked /\ "ocr" \in invoked
    /\ Cardinality(DOMAIN simple_fields \cup DOMAIN pattern_fields) = 2
    /\ Cardinality(DOMAIN simple_fields \cup DOMAIN pattern_fields
                     \cup DOMAIN table_fields) = 4

\* C5: a call on a path that does not exist never invokes an adapter and
\* never changes self.stats, and it returns success=false, a non-empty
\* error message and no data.
C5_MissingFile ==
    /\ [](~file_exists => invoked = {} /\ threw = {})
    /\ []((pc = "done" /\ ~file_exists) =>
             /\ ~result.success
             /\ result.error_message # None /\ result.error_message[1] # ""
             /\ result.data = None)
    /\ [][stats' = stats]_vars

\* a call on a missing path has returned
C5_Witness ==
    /\ pc = "done" /\ ~file_exists
    /\ ~result.success /\ result.error_message = Some("File not found")

\* C6: when no adapter obtains any text or any field from an existing
\* file, the call returns success=false with an error description and no
\* record.
C6_TotalFailureFails ==
    (/\ Returned
     /\ extracted_fields = EmptyDict
     /\ pdf_text = EmptyText /\ ocr_text = EmptyText)
        => (~result.success /\ result.error_message # None /\ result.data = None)

\* C7: every result returned has success=true if and only if data is
\* present, and a result with success=false has no data and a non-empty
\* error_message.
C7_NoPartialRecord ==
    pc = "done" =>
        /\ result.success <=> result.data # None
        /\ ~result.success =>
              /\ result.data = None
              /\ result.error_message # None /\ result.error_message[1] # ""

\* the call failed after its strategies had contributed fields
C7_Witness ==
    /\ Returned /\ ~result.success
    /\ len(extracted_fields) > 0
    /\ result.data = None

\* C8: an exception raised inside an adapter never reaches the try block
\* of extract_from_pdf and never makes the call fail; the later stages are
\* gated as always, and the call returns success=true.
C8_AdapterFailureContained ==
    /\ exception # "adapter"
    /\ threw # {} => TableGateRespected /\ OcrGateRespected
    /\ (Returned /\ threw # {} /\ exception = "none")
          => result.success /\ result.data # None
    /\ (Returned /\ ~result.success) => exception = "other"

\* the simple extraction raised; text, table and OCR stages still ran and
\* the call returned a record
C8_Witness ==
    /\ Returned /\ result.success
    /\ "simple" \in threw
    /\ {"text", "table", "ocr"} \subseteq invoked

\* C25: within a call no step removes a field from the accumulated map or
\* changes the value of a field it holds, so the field count never
\* decreases; the simple extraction produces no entity field, so stage 2
\* never finds an entity field already set and never overrides one.
C25_MapOnlyGrows ==
    [][ /\ pc' # "validate_file" =>
             /\ \A f \in DOMAIN extracted_fields :
                    /\ f \in DOMAIN extracted_fields'
                    /\ extracted_fields'[f] = extracted_fields[f]
             /\ len(extracted_fields') >= len(extracted_fields)
        /\ DOMAIN simple_fields' \cap entity_fields = {}
        /\ pc = "text" => DOMAIN extracted_fields \cap entity_fields = {} ]_vars

\* the text stage has added an EIN to a map the simple extraction had
\* begun, the table stage has added more, and the fields of the simple
\* extraction are still there
C25_Witness ==
    /\ pc = "create"
    /\ len(simple_fields) > 0
    /\ "ein" \in DOMAIN pattern_fields
    /\ "table" \in invoked
    /\ len(extracted_fields) > len(simple_fields) + len(pattern_fields)
    /\ \A f \in DOMAIN simple_fields : extracted_fields[f] = simple_fields[f]

\* C26: whenever the OCR stage has been invoked in a call, the table stage
\* was invoked before it in the same call; OCR never runs in a call that
\* skipped the table stage.
C26_OcrOnlyAfterTables ==
    /\ "ocr" \in invoked => "table" \in invoked
    /\ (pc = "ocr" /\ ocr_gate_open(extracted_fields)) => "table" \in invoked

\* the OCR stage has run after the table stage in a call
C26_Witness ==
    /\ pc = "create"
    /\ "ocr" \in invoked
    /\ "table" \in invoked
    /\ len(table_fields) > 0

\* number of the fields of S the record has
Populated(k1, S) == Cardinality({f \in S : k1.fields[f] # None})

\* keys the table stage of this call added to the map
TableAdded ==
    Cardinality(DOMAIN table_fields \ (DOMAIN simple_fields \cup DOMAIN pattern_fields))

\* keys the OCR stage of this call added to the map
OcrAdded ==
    Cardinality(DOMAIN ocr_fields \ (DOMAIN simple_fields \cup DOMAIN pattern_fields
                                       \cup DOMAIN table_fields))

\* C27: the method tag of a successful result is TABLE exactly when the
\* table stage added more than 5 new fields, OCR exactly when the OCR stage
\* added more than half of the field count after its merge, and PDF_TEXT
\* otherwise; the two cases exclude each other, OCR not being invoked after
\* more than 5 table additions; the result and its record carry the same tag.
C27_MethodTag ==
    (Returned /\ result.success) =>
        /\ result.extraction_method \in {"pdf_text", "table", "ocr"}
        /\ result.extraction_method = "table" <=> TableAdded > 5
        /\ result.extraction_method = "ocr" <=> 2 * OcrAdded > len(extracted_fields)
        /\ ~(TableAdded > 5 /\ "ocr" \in invoked)
        /\ result.data[1].extraction_method = result.extraction_method

\* a call has returned with the tag TABLE after the table stage added more
\* than five fields to those of the simple extraction, and OCR did not run
C27_Witness ==
    /\ Returned /\ result.success
    /\ result.extraction_method = "table"
    /\ len(simple_fields) > 0
    /\ TableAdded > 5
    /\ "ocr" \notin invoked

\* C28: no strategy produces partner_name: it is never in the accumulated
\* map, it is absent from every returned record, at most five of the six
\* important fields are populated, and the confidence score is below 1.
C28_PartnerNameAbsent ==
    /\ "partner_name" \notin DOMAIN extracted_fields
    /\ (Returned /\ result.success) =>
          /\ result.data[1].fields["partner_name"] = None
          /\ Populated(result.data[1], {"ein", "tax_year", "entity_name", "partner_name",
                                        "box_1_ordinary_income", "capital_ending"}) <= 5
          /\ result.data[1].confidence_score < One

\* a record with the five other important fields has been returned
C28_Witness ==
    /\ Returned /\ result.success
    /\ Populated(result.data[1], {"ein", "tax_year", "entity_name",
                                  "box_1_ordinary_income", "capital_ending"}) = 5
    /\ result.data[1].fields["partner_name"] = None
    /\ result.data[1].confidence_score >= (9 * One) \div 10

\* the entity name of the accumulated map, lower-cased, has the keyword
NameHas(word) ==
    /\ "entity_name" \in DOMAIN extracted_fields
    /\ Contains(Lower(extracted_fields["entity_name"]), word)

C21_StageOrder ==
    /\ pc = "simple" => invoked = {}
    /\ pc = "text" => invoked = {"simple"}
    /\ pc = "table" => invoked = {"simple", "text"}
    /\ pc = "ocr" => invoked \in {{"simple", "text"}, {"simple", "text", "table"}}
    /\ pc = "create" => {"simple", "text"} \subseteq invoked
    /\ pc \in {"validate_file", "simple", "text", "table", "ocr", "create"} => k1_data = NoK1
    /\ pc = "return" =>
          k1_data = with_warnings(with_confidence(
                       create_k1_data(extracted_fields,
                                      form_type_of(pdf_text, extracted_fields),
                                      extraction_method, pdf_text)))

\* the four strategies have run and the record has been built
C21_Witness ==
    /\ pc = "return"
    /\ invoked = {"simple", "text", "table", "ocr"}
    /\ len(extracted_fields) > 0
    /\ k1_data # NoK1

\* C20: a strategy whose adapter raised part-way contributes no field:
\* every key of the accumulated map that the failed simple or table
\* extraction had found comes from some other strategy.
C20_FailedAdapterContributesNothing ==
    /\ "simple" \in threw =>
          \A f \in DOMAIN simple_fields \cap DOMAIN extracted_fields :
              f \in DOMAIN pattern_fields \cup DOMAIN table_fields \cup DOMAIN ocr_fields
    /\ "table" \in threw =>
          \A f \in DOMAIN table_fields \cap DOMAIN extracted_fields :
              f \in DOMAIN simple_fields \cup DOMAIN pattern_fields \cup DOMAIN ocr_fields

\* what the stage that runs in this step has produced for f, f being
\* absent from the map before the step
Backfilled(f, output) ==
    (f \in DOMAIN output /\ f \notin DOMAIN extracted_fields)
        => (f \in DOMAIN extracted_fields' /\ extracted_fields'[f] = output[f])

AllKeys == Range(SimpleKeys) \cup Range(PatternKeys) \cup Range(TableKeys)

\* C17: whenever the text, table or OCR stage runs and produces a field
\* that the accumulated map does not have, the map has that field with
\* the stage's value after the stage, whatever the field's name.
C17_PureBackfill ==
    [][\A f \in AllKeys :
          /\ pc = "text"  => Backfilled(f, pattern_fields')
          /\ pc = "table" => Backfilled(f, table_fields')
          /\ pc = "ocr"   => Backfilled(f, ocr_fields')]_vars

\* the OCR stage ran on a map without the capital account at the
\* beginning of the year and the map now holds the OCR text's value; the
\* table stage had added box 2 before it
C17_Witness ==
    /\ pc = "create"
    /\ {"table", "ocr"} \subseteq invoked
    /\ "capital_beginning" \in DOMAIN ocr_fields
    /\ "capital_beginning" \notin
          DOMAIN simple_fields \cup DOMAIN pattern_fields \cup DOMAIN table_fields
    /\ extracted_fields["capital_beginning"] = ocr_fields["capital_beginning"]
    /\ "box_2_rental_real_estate" \in DOMAIN table_fields
    /\ "box_2_rental_real_estate" \notin DOMAIN simple_fields \cup DOMAIN pattern_fields
    /\ extracted_fields["box_2_rental_real_estate"]
          = table_fields["box_2_rental_real_estate"]

(***************************************************************************)
(* Properties of scoring and validation (specification SpecRecord)         *)
(***************************************************************************)
reconciliation_warning == <<"Capital account may not reconcile">>

Warned(k1, w) == \E i \in 1..Len(k1.warnings) : k1.warnings[i] = w

CapitalPresent(k1) ==
    /\ k1.fields["capital_beginning"] # None
    /\ k1.fields["capital_contributions"] # None
    /\ k1.fields["capital_distributions"] # None
    /\ k1.fields["capital_ending"] # None
    /\ k1.fields["box_1_ordinary_income"] # None

Capital(k1) ==
    << k1.fields["capital_beginning"], k1.fields["capital_contributions"],
       k1.fields["box_1_ordinary_income"], k1.fields["capital_distributions"],
       k1.fields["capital_ending"] >>

Imbalance(k1) ==
    k1.fields["capital_beginning"][1] + k1.fields["capital_contributions"][1]
      + get_total_income(k1)
      - k1.fields["capital_distributions"][1] - k1.fields["capital_ending"][1]

\* C11: the validation step changes none of the record's extracted fields,
\* its form type, its method tag, its raw text or its confidence score; it
\* keeps the warnings the record had and appends the ones it produced, and
\* it hands the record on without raising and without touching the result.
C11_ValidationOnlyAnnotates ==
    [][pc = "validate" =>
          /\ k1_data'.fields = k1_data.fields
          /\ k1_data'.form_type = k1_data.form_type
          /\ k1_data'.extraction_method = k1_data.extraction_method
          /\ k1_data'.raw_text = k1_data.raw_text
          /\ k1_data'.confidence_score = k1_data.confidence_score
          /\ Len(k1_data'.warnings) >= Len(k1_data.warnings)
          /\ SubSeq(k1_data'.warnings, 1, Len(k1_data.warnings)) = k1_data.warnings
          /\ pc' = "validated"
          /\ exception' = exception /\ result' = result]_vars

\* a scored record that came with one warning has been validated and now
\* carries that warning followed by two new ones
C11_Witness ==
    /\ pc = "validated"
    /\ Len(k1_data.warnings) = 3
    /\ k1_data.warnings[1] = <<"earlier warning">>
    /\ Warned(k1_data, <<"EIN format may be invalid">>)
    /\ Warned(k1_data, <<"Capital account may not reconcile">>)
    /\ k1_data.confidence_score > 0

\* C12: when the EIN a strategy extracted is not two digits, a dash and
\* seven digits, the call still returns success=true, the record stores
\* that EIN as extracted and carries the EIN-format warning.
C12_MalformedEinWarned ==
    (/\ Returned /\ exception = "none"
     /\ "ein" \in DOMAIN extracted_fields
     /\ (Len(extracted_fields["ein"]) # 10 \/ extracted_fields["ein"][3] # "-"))
        => /\ result.success
           /\ result.data[1].fields["ein"] = Some(extracted_fields["ein"])
           /\ Warned(result.data[1], <<"EIN format may be invalid">>)

\* the text stage captured the nine-digit EIN without a dash and the call
\* returned a record holding it
C12_Witness ==
    /\ Returned /\ result.success
    /\ "ein" \in DOMAIN pattern_fields
    /\ pattern_fields["ein"] = <<"1","2","3","4","5","6","7","8","9">>
    /\ result.data[1].fields["ein"] = Some(<<"1","2","3","4","5","6","7","8","9">>)
    /\ Warned(result.data[1], <<"EIN format may be invalid">>)

\* C9: whatever fields are populated, whatever method tag is set and
\* whether or not the capital account reconciles, the computed
\* confidence_score lies between 0 and 1.
C9_ConfidenceBounds ==
    pc \in {"validate", "validated"} =>
        (0 <= k1_data.confidence_score /\ k1_data.confidence_score <= One)

\* a record tagged ocr whose capital account does not reconcile and that
\* has none of the critical fields has been scored
C9_Witness ==
    /\ pc = "validate"
    /\ k1_data.extraction_method = "ocr"
    /\ ~validate_capital_account(k1_data)
    /\ CountPresent(k1_data, critical_fields) = 0
    /\ k1_data.confidence_score > 0
    /\ k1_data.confidence_score < One \div 3

\* capital_ending equals capital_beginning + capital_contributions
\* + total_income - capital_distributions within the tolerance (absent
\* contributions counting as 0, total_income as get_total_income gives it)
Reconciles(k1) ==
    /\ k1.fields["capital_beginning"] # None
    /\ k1.fields["capital_ending"] # None
    /\ k1.fields["capital_distributions"] # None
    /\ Abs(k1.fields["capital_beginning"][1]
             + OrZero(k1.fields["capital_contributions"])
             + get_total_income(k1)
             - k1.fields["capital_distributions"][1]
             - k1.fields["capital_ending"][1]) <= TOLERANCE

\* the score without its capital part
OtherScores(k1) ==
    (get_completeness_score(k1) * 4) \div 10
      + (((CountPresent(k1, critical_fields) * One) \div Len(critical_fields)) * 3) \div 10
      + (method_scores(k1.extraction_method) * 2) \div 10

\* C23: the capital part of the confidence of a scored record is 0.10 when
\* capital_ending equals capital_beginning + capital_contributions
\* + total_income - capital_distributions within the tolerance and 0.05
\* otherwise; it is never 0.
C23_CapitalCredit ==
    pc \in {"validate", "validated"} =>
        k1_data.confidence_score - OtherScores(k1_data)
            = (IF Reconciles(k1_data) THEN One \div 10 ELSE One \div 20)

\* C29: in a validated record that lacks capital_beginning, capital_ending
\* or capital_distributions there is no reconciliation warning and the
\* capital part of the score is the full 0.10, whatever the other fields
\* hold; in every validated record the reconciliation warning is present
\* exactly when the capital part of the score is 0.05.
C29_MissingCapitalReconciled ==
    pc = "validated" =>
        LET credit == k1_data.confidence_score - OtherScores(k1_data)
        IN  /\ (\/ k1_data.fields["capital_beginning"] = None
                \/ k1_data.fields["capital_ending"] = None
                \/ k1_data.fields["capital_distributions"] = None)
                  => /\ ~Warned(k1_data, reconciliation_warning)
                     /\ credit = One \div 10
            /\ Warned(k1_data, reconciliation_warning) <=> credit = One \div 20

\* a record with beginning 100,000.00, contributions and distributions
\* but no ending balance has been validated without the warning
C29_Witness ==
    /\ pc = "validated"
    /\ k1_data.fields["capital_beginning"] = Some(10000000)
    /\ k1_data.fields["capital_contributions"] = Some(2500000)
    /\ k1_data.fields["capital_distributions"] = Some(5000000)
    /\ k1_data.fields["capital_ending"] = None
    /\ ~Warned(k1_data, reconciliation_warning)

\* models.py:84-143  the income fields of boxes 1 through 11
boxes_1_to_11 ==
    << "box_1_ordinary_income", "box_2_rental_real_estate", "box_3_other_rental",
       "box_4_guaranteed_payments", "box_5_interest_income",
       "box_6a_ordinary_dividends", "box_6b_qualified_dividends",
       "box_7_royalties", "box_8_net_short_term_gain",
       "box_9a_net_long_term_gain", "box_10_net_1231_gain",
       "box_11_other_income" >>

\* C24: the income term of a scored record is the sum of the populated
\* income fields of boxes 1 through 11, and 0 when none is populated.
C24_TotalIncome ==
    pc \in {"validate", "validated"} =>
        get_total_income(k1_data) = SumPresent(k1_data, boxes_1_to_11)

HasDigit(s) == \E i \in 1..Len(s) : s[i] \in Digits

\* the position of the first digit of a text that has one
FirstDigit(s) == CHOOSE i \in 1..Len(s) : s[i] \in Digits /\ \A k \in 1..(i - 1) : s[k] \notin Digits

\* the leading number of the text is the box's digit followed by a digit
LeadsWithLonger(s, field) ==
    /\ HasDigit(s)
    /\ s[FirstDigit(s)] = box_number(field)[1]
    /\ FirstDigit(s) < Len(s)
    /\ s[FirstDigit(s) + 1] \in Digits

\* C18: a non-empty text that contains a form title is classified by the
\* first title it contains in the order 1065, 1120S, 1041, wherever the
\* titles stand in the text and whatever else it contains; the class is
\* always one of 1065, 1120S, 1041, unknown.
C18_FormTypePriority ==
    pc = "classified" =>
        LET lower == Lower(line)
            has_1065  == Contains(lower, <<"f","o","r","m"," ","1","0","6","5">>)
            has_1120s == Contains(lower, <<"f","o","r","m"," ","1","1","2","0","s">>)
            has_1041  == Contains(lower, <<"f","o","r","m"," ","1","0","4","1">>)
        IN  /\ k1_data.form_type \in {"1065", "1120S", "1041", "unknown"}
            /\ has_1065 => k1_data.form_type = "1065"
            /\ (~has_1065 /\ has_1120s) => k1_data.form_type = "1120S"
            /\ (~has_1065 /\ ~has_1120s /\ has_1041) => k1_data.form_type = "1041"

\* a text with the title of form 1041 first, a trust in the middle and
\* the title of form 1065 last has been classified 1065
C18_Witness ==
    /\ pc = "classified"
    /\ line = <<"F","o","r","m"," ","1","0","4","1">> \o <<" ">>
               \o <<"T","r","u","s","t">> \o <<" ">>
               \o <<"F","o","r","m"," ","1","0","6","5">>
    /\ k1_data.form_type = "1065"

\* C13: clean_currency gives the magnitude for a plain or $-prefixed
\* amount, and the negated magnitude for the amount in parentheses, with a
\* trailing dash or with a leading dash ("$1,234.56" gives 1234.56;
\* "(1,234.56)", "1234.56-" and "-1234.56" give -1234.56).
C13_SignsNegate ==
    pc \in {"cleaned", "stored"} =>
        \A m \in Magnitudes : \A cur \in { << >>, <<"$">> } :
            Numeric(m) =>
                /\ raw_value = cur \o m.text => cleaned = Some(m.cents)
                /\ raw_value \in { <<"(">> \o cur \o m.text \o <<")">>,
                                   cur \o m.text \o <<"-">>,
                                   <<"-">> \o cur \o m.text }
                      => cleaned = Some(-m.cents)

\* C14: when the token a money rule captured holds no digit, the
\* normalizer's result differs from its result for "0" and the field is
\* left out of the field map instead of being stored as 0.
C14_NotNumericAbsent ==
    (pc = "stored" /\ CapturedShape(raw_value) /\ ~HasDigit(raw_value))
        => /\ cleaned # Some(clean_currency(<<"0">>))
           /\ pattern_fields = EmptyDict

\* C15: for each of the boxes 1, 2, 3, 4, 5, 7 and 8, a one-line text whose
\* leading number is the box's digit followed by another digit leaves the
\* box absent from what the rules extract.
C15_BoxDisambiguation ==
    pc = "matched" =>
        \A f \in pattern_boxes :
            (has_lookahead(f) /\ LeadsWithLonger(line, f)) => f \notin matched

\* the result of the call in progress, from what this call alone met: whether
\* the file exists, what the adapters read, whether the block raised
outcome ==
    IF ~file_exists THEN not_found_result
    ELSE IF exception = "other" THEN failure_result
    ELSE LET k1 == record_of(this_call)
         IN  ExtractionResult(TRUE, Some(k1), k1.extraction_method, None)

C16_Idempotent ==
    Len(runs) = 2 => runs[1] = runs[2]

====
